---------------------------- MODULE Spec2Model ----------------------------
(***************************************************************************)
(* Model of the thread-per-connection TCP server (src/server3.c) and of    *)
(* its select()-based client (src/client.c).                               *)
(*                                                                         *)
(* The module holds six state machines over one set of variables; each     *)
(* has its own specification and leaves the other groups idle:             *)
(*   SpecWriten  one call of writen(), server or client variant           *)
(*   SpecReads   one call of reads()                                      *)
(*   SpecCalls   one call of either of the two                            *)
(*   SpecPrim    one call of a wrapper: Read, Write, Close, Accept        *)
(*   SpecServer  main()'s accept loop and the serve_client() threads      *)
(*   SpecServerFair  the same with every handler scheduled fairly         *)
(*   SpecMessage the random_message buffer of serve_client()              *)
(*   SpecClient  do_work(), the client's multiplexing loop                *)
(*                                                                         *)
(* A size_t value v is represented by the integer of least magnitude that  *)
(* is congruent to v modulo 2^64: a negative integer k stands for the      *)
(* wrapped value 2^64 + k.  Subtraction and the test against zero are      *)
(* exact in this representation as long as magnitudes stay far below 2^63, *)
(* which the bounds on the number of calls guarantee.                      *)
(***************************************************************************)
EXTENDS Integers, Sequences, FiniteSets, TLC

(* ------------------------------ bounds -------------------------------- *)
\* longest buffer handed to writen()
MaxCount == 3
\* successful underlying write() calls followed within one writen()
MaxWrites == 3
\* EINTR failures followed within one loop
MaxEintr == 1
\* largest capacity handed to reads()
MaxCap == 3
\* longest stream content offered to reads()
MaxStream == 3
\* underlying calls followed within one wrapper call
MaxCalls == 3
\* largest byte count handed to Read() and Write() taken alone
MaxPrimCount == 2
\* connections the listener accepts
MaxConns == 2
\* successful write() calls followed within one handler
MaxHandlerWrites == 2
\* longest input offered to the client on either source
MaxInput == 2
\* readiness waits followed within one do_work()
MaxWaits == 4

(* --------------------------- program values --------------------------- *)
\* '\n', the line terminator reads() looks for
NL == 10
\* the 0 reads() stores behind the data
Sentinel == 0
\* the content of a buffer cell nothing has been stored in
Indeterminate == -1
Letters == {97, 98}
Bytes == {NL, 97}

VARIABLES
  \* writen(): variant, buf == NULL, buffer, count, n, p, bytes delivered,
  \* position, return value, successful writes, EINTR retries, last request
  wv, wnull, wbuf, wcount, wn, wp, wout, wpc, wret, wcalls, weintr, wreq,
  \* reads(): s == NULL, size argument, local size, bytes the peer sends,
  \* peer closes behind them, bytes consumed, cells of s, indices stored to,
  \* n, p, position, return value, read() calls answered, EINTR retries
  rnull, rcap, rsize, rstream, reof, rpos, rmem, rwritten, rn, rp, rpc, rret,
  rreads, reintr,
  \* a wrapper call: which wrapper, its arguments, the arguments of each
  \* underlying call issued, the outcome of each, position, value returned
  pkind, pargs, pcalls, pouts, ppc, pret,
  \* the server process: running, who called exit(); main(): position,
  \* csocket, arg, connections accepted
  alive, exited, lpc, csocket, arg, nAccepted,
  \* kernel and heap: connection behind each descriptor number (0: not open),
  \* descriptor accept() returned for each connection, argument blocks
  fdtab, connFd, heap,
  \* serve_client() threads: position, arg, socket, writen()'s n, successful
  \* writes, whether random_message is an allocated block
  hpc, harg, hsocket, hn, hwrites, hmsg,
  \* history: times each connection was closed, and which thread did which
  \* operation on which connection
  closes, ioLog,
  \* do_work(): position, descriptors select() reported ready, bytes still to
  \* come on stdin and on the socket, whether each ends with end of stream,
  \* bytes sent to the socket and to stdout, select() calls returned
  cpc, cready, cin, cinEof, csk, cskEof, toSock, toOut, cwaits,
  \* history: the source whose read returned 0, and the waits and forwarded
  \* bytes counted at that moment; the sources read since the last select()
  ceofSrc, cwaitsAtEof, cfwdAtEof, creadIter,
  \* random_message in serve_client(): position, size of the block, i, the
  \* indices stored to, the end of the range handed to write()
  mpc, msize, mi, mstored, mreadEnd

wvars == <<wv, wnull, wbuf, wcount, wn, wp, wout, wpc, wret, wcalls, weintr, wreq>>

rvars == <<rnull, rcap, rsize, rstream, reof, rpos, rmem, rwritten, rn, rp, rpc,
           rret, rreads, reintr>>

pvars == <<pkind, pargs, pcalls, pouts, ppc, pret>>

svars == <<alive, exited, lpc, csocket, arg, nAccepted, fdtab, connFd,
           heap, hpc, harg, hsocket, hn, hwrites, hmsg, closes, ioLog>>

cvars == <<cpc, cready, cin, cinEof, csk, cskEof, toSock, toOut, cwaits, ceofSrc,
           cwaitsAtEof, cfwdAtEof, creadIter>>

mvars == <<mpc, msize, mi, mstored, mreadEnd>>

vars == <<wvars, rvars, pvars, svars, cvars, mvars>>

\* what the steps of one state machine leave alone
notW == <<rvars, pvars, svars, cvars, mvars>>
notR == <<wvars, pvars, svars, cvars, mvars>>
notP == <<wvars, rvars, svars, cvars, mvars>>
notS == <<wvars, rvars, pvars, cvars, mvars>>
notC == <<wvars, rvars, pvars, svars, mvars>>
notM == <<wvars, rvars, pvars, svars, cvars>>

(* ============================== writen ================================ *)

\* All sequences over S of length 0..n
SeqUpTo(S, n) == UNION {[1..k -> S] : k \in 0..n}

\* size_t subtraction n -= rc (a negative result is the wrapped value)
SizeSub(n, rc) == n - rc

\* the length writen() asks Write() for: the server passes count, the
\* client passes the remaining n
WriteRequest(v, count, n) == IF v = "server" THEN count ELSE n

\* the r bytes write() takes from address p of a block holding buf: bytes
\* past the end of the block are whatever the memory behind it holds
MemBytes(buf, p, r) ==
  {d \in [1..r -> Letters] : \A i \in 1..r : (p + i <= Len(buf)) => d[i] = buf[p + i]}

\* p += rc
WritenAdvanceStuck(p, rc) == p
WritenAdvance(p, rc) == p + rc

WritenIdle ==
  /\ wv = "none" /\ wnull = FALSE /\ wbuf = <<>> /\ wcount = 0 /\ wn = 0
  /\ wp = 0 /\ wout = <<>> /\ wpc = "idle" /\ wret = 0 /\ wcalls = 0
  /\ weintr = 0 /\ wreq = 0

WritenInit ==
  /\ wv \in {"server", "client"}
  /\ wnull \in BOOLEAN
  /\ wbuf \in SeqUpTo(Letters, MaxCount)
  /\ wnull => wbuf = <<>>
  /\ wcount \in 0..MaxCount
  /\ ~wnull => wcount = Len(wbuf)
  /\ wn = 0 /\ wp = 0 /\ wout = <<>> /\ wpc = "entry" /\ wret = 0
  /\ wcalls = 0 /\ weintr = 0 /\ wreq = 0

\* if (buf == NULL) { errno = EFAULT; error("writen()"); }
WritenNull ==
  /\ wpc = "entry" /\ wnull
  /\ wpc' = "fatal"
  /\ UNCHANGED <<wv, wnull, wbuf, wcount, wn, wp, wout, wret, wcalls, weintr, wreq>>
  /\ UNCHANGED notW

\* p = buf; n = count;
WritenStart ==
  /\ wpc = "entry" /\ ~wnull
  /\ wp' = 0 /\ wn' = wcount /\ wpc' = "loop"
  /\ UNCHANGED <<wv, wnull, wbuf, wcount, wout, wret, wcalls, weintr, wreq>>
  /\ UNCHANGED notW

\* rc = Write(socket, p, req) returns rc in 1..req; n -= rc; p += rc;
WritenWrite ==
  /\ wpc = "loop" /\ wn # 0 /\ wcalls < MaxWrites
  /\ LET req == WriteRequest(wv, wcount, wn) IN
     \E rc \in 1..req : \E d \in MemBytes(wbuf, wp, rc) :
       /\ wout' = wout \o d
       /\ wn' = SizeSub(wn, rc)
       /\ wp' = WritenAdvance(wp, rc)
       /\ wreq' = req
       /\ wcalls' = wcalls + 1
  /\ UNCHANGED <<wv, wnull, wbuf, wcount, wpc, wret, weintr>>
  /\ UNCHANGED notW

\* write() fails with EINTR inside Write(): the same call is issued again
WritenEintr ==
  /\ wpc = "loop" /\ wn # 0 /\ weintr < MaxEintr
  /\ weintr' = weintr + 1
  /\ wreq' = WriteRequest(wv, wcount, wn)
  /\ UNCHANGED <<wv, wnull, wbuf, wcount, wn, wp, wout, wpc, wret, wcalls>>
  /\ UNCHANGED notW

\* write() fails with another errno inside Write(): error() does not return
WritenFatal ==
  /\ wpc = "loop" /\ wn # 0
  /\ wpc' = "fatal"
  /\ wreq' = WriteRequest(wv, wcount, wn)
  /\ UNCHANGED <<wv, wnull, wbuf, wcount, wn, wp, wout, wret, wcalls, weintr>>
  /\ UNCHANGED notW

\* while (n) ends; return count;
WritenReturn ==
  /\ wpc = "loop" /\ wn = 0
  /\ wpc' = "returned" /\ wret' = wcount
  /\ UNCHANGED <<wv, wnull, wbuf, wcount, wn, wp, wout, wcalls, weintr, wreq>>
  /\ UNCHANGED notW

WritenNext ==
  \/ WritenNull
  \/ WritenStart
  \/ WritenWrite
  \/ WritenEintr
  \/ WritenFatal
  \/ WritenReturn

(* =============================== reads ================================ *)

\* the cells of s before the call: nothing stored yet
FreshCells == [i \in 0..(MaxCap + 1) |-> Indeterminate]

ReadsIdle ==
  /\ rnull = FALSE /\ rcap = 0 /\ rsize = 0 /\ rstream = <<>> /\ reof = FALSE
  /\ rpos = 0 /\ rmem = FreshCells /\ rwritten = {} /\ rn = 0 /\ rp = 0
  /\ rpc = "idle" /\ rret = 0 /\ rreads = 0 /\ reintr = 0

ReadsInit ==
  /\ rnull \in BOOLEAN
  /\ rcap \in 0..MaxCap
  /\ rstream \in SeqUpTo(Bytes, MaxStream)
  /\ reof \in BOOLEAN
  /\ rsize = rcap /\ rpos = 0 /\ rmem = FreshCells /\ rwritten = {}
  /\ rn = 0 /\ rp = 0 /\ rpc = "entry" /\ rret = 0 /\ rreads = 0 /\ reintr = 0

\* size--: the number of data bytes the loop may store
ReadsLimitWhole(size) == size
ReadsLimit(size) == size - 1

\* if (!size)
ReadsEmptyNever(size) == FALSE
ReadsEmpty(size) == size = 0

\* if (rc == 0) break;
ReadsEofIgnored(rc) == FALSE
ReadsEofBreaks(rc) == rc = 0

\* if (s == NULL) { errno = EFAULT; error("reads()"); }
ReadsNull ==
  /\ rpc = "entry" /\ rnull
  /\ rpc' = "fatal"
  /\ UNCHANGED <<rnull, rcap, rsize, rstream, reof, rpos, rmem, rwritten, rn, rp,
                 rret, rreads, reintr>>
  /\ UNCHANGED notR

\* if (!size) return 0;
ReadsZero ==
  /\ rpc = "entry" /\ ~rnull /\ ReadsEmpty(rsize)
  /\ rpc' = "returned" /\ rret' = 0
  /\ UNCHANGED <<rnull, rcap, rsize, rstream, reof, rpos, rmem, rwritten, rn, rp,
                 rreads, reintr>>
  /\ UNCHANGED notR

\* p = s; size--; n = 0;
ReadsStart ==
  /\ rpc = "entry" /\ ~rnull /\ ~ReadsEmpty(rsize)
  /\ rp' = 0 /\ rsize' = ReadsLimit(rsize) /\ rn' = 0 /\ rpc' = "loop"
  /\ UNCHANGED <<rnull, rcap, rstream, reof, rpos, rmem, rwritten, rret, rreads,
                 reintr>>
  /\ UNCHANGED notR

\* One pass of the loop body: rc = Read(socket, p, 1) answered with one byte
\* (rc = 1, stored at *p) or with end of stream (rc = 0, nothing stored);
\* if (rc == 0) break; if (*p == '\n') { p++; n++; break; } p++; n++;
ReadsRead ==
  /\ rpc = "loop" /\ rn < rsize
  /\ \/ rpos < Len(rstream)
     \/ rpos = Len(rstream) /\ reof
  /\ LET rc == IF rpos < Len(rstream) THEN 1 ELSE 0
         cells == IF rc = 1 THEN [rmem EXCEPT ![rp] = rstream[rpos + 1]] ELSE rmem
     IN
       /\ rmem' = cells
       /\ rwritten' = IF rc = 1 THEN rwritten \cup {rp} ELSE rwritten
       /\ rpos' = rpos + rc
       /\ rreads' = rreads + 1
       /\ IF ReadsEofBreaks(rc)
            THEN /\ rpc' = "term"
                 /\ UNCHANGED <<rp, rn>>
            ELSE /\ rp' = rp + 1
                 /\ rn' = rn + 1
                 /\ rpc' = IF cells[rp] = NL THEN "term" ELSE "loop"
  /\ UNCHANGED <<rnull, rcap, rsize, rstream, reof, rret, reintr>>
  /\ UNCHANGED notR

\* read() fails with EINTR inside Read(): the same call is issued again
ReadsEintr ==
  /\ rpc = "loop" /\ rn < rsize /\ reintr < MaxEintr
  /\ reintr' = reintr + 1
  /\ UNCHANGED <<rnull, rcap, rsize, rstream, reof, rpos, rmem, rwritten, rn, rp,
                 rpc, rret, rreads>>
  /\ UNCHANGED notR

\* read() fails with another errno inside Read(): error() does not return
ReadsFatal ==
  /\ rpc = "loop" /\ rn < rsize
  /\ rpc' = "fatal"
  /\ UNCHANGED <<rnull, rcap, rsize, rstream, reof, rpos, rmem, rwritten, rn, rp,
                 rret, rreads, reintr>>
  /\ UNCHANGED notR

\* while (n < size) ends
ReadsFull ==
  /\ rpc = "loop" /\ ~(rn < rsize)
  /\ rpc' = "term"
  /\ UNCHANGED <<rnull, rcap, rsize, rstream, reof, rpos, rmem, rwritten, rn, rp,
                 rret, rreads, reintr>>
  /\ UNCHANGED notR

\* *p = 0; return n;
ReadsReturn ==
  /\ rpc = "term"
  /\ rmem' = [rmem EXCEPT ![rp] = Sentinel]
  /\ rwritten' = rwritten \cup {rp}
  /\ rret' = rn /\ rpc' = "returned"
  /\ UNCHANGED <<rnull, rcap, rsize, rstream, reof, rpos, rn, rp, rreads, reintr>>
  /\ UNCHANGED notR

ReadsNext ==
  \/ ReadsNull
  \/ ReadsZero
  \/ ReadsStart
  \/ ReadsRead
  \/ ReadsEintr
  \/ ReadsFatal
  \/ ReadsFull
  \/ ReadsReturn

(* ====================== Read, Write, Close, Accept ==================== *)

\* errno values an underlying call may fail with; EIO stands for every errno
\* the wrappers do not look for
Errnos == {"EINTR", "ECONNABORTED", "EIO"}
\* descriptors: listening or connected sockets handed to a wrapper, and the
\* new descriptors accept() may return
PrimFds == {3, 4}
AcceptFds == {4, 5}
\* rc of a failed call
Failure == -1
\* what a void wrapper hands back
NoValue == -2

\* the outcomes of one underlying call: its rc and, when it failed, errno
Outcomes(kind, args) ==
  LET good == CASE kind = "Read"   -> 0..args.count
                [] kind = "Write"  -> 0..args.count
                [] kind = "Close"  -> {0}
                [] kind = "Accept" -> AcceptFds
  IN [rc : good, errno : {"none"}] \cup [rc : {Failure}, errno : Errnos]

\* if (rc != -1) break;   (Close: if (!rc) break;)
SucceededAlways(kind, rc) == TRUE
Succeeded(kind, rc) == IF kind = "Close" THEN rc = 0 ELSE rc # Failure

\* if (errno == EINTR) continue;
\* (Accept: if (errno == EINTR || errno == ECONNABORTED) continue;)
RetriedEintrOnly(kind, errno) == errno = "EINTR"
Retried(kind, errno) ==
  \/ errno = "EINTR"
  \/ kind = "Accept" /\ errno = "ECONNABORTED"

PrimIdle ==
  /\ pkind = "none" /\ pargs = [fd |-> 0, count |-> 0] /\ pcalls = <<>>
  /\ pouts = <<>> /\ ppc = "idle" /\ pret = NoValue

PrimInit ==
  /\ pkind \in {"Read", "Write", "Close", "Accept"}
  /\ pargs \in [fd : PrimFds, count : 0..MaxPrimCount]
  /\ pkind \in {"Close", "Accept"} => pargs.count = 0
  /\ pcalls = <<>> /\ pouts = <<>> /\ ppc = "call" /\ pret = NoValue

\* rc = read(fd, buf, count) / write(...) / close(fd) / accept(socket, ...)
PrimCall ==
  /\ ppc = "call" /\ Len(pcalls) < MaxCalls
  /\ \E o \in Outcomes(pkind, pargs) :
       /\ pcalls' = Append(pcalls, pargs)
       /\ pouts' = Append(pouts, o)
  /\ ppc' = "check"
  /\ UNCHANGED <<pkind, pargs, pret>>
  /\ UNCHANGED notP

\* break; return rc;
PrimReturn ==
  /\ ppc = "check" /\ Succeeded(pkind, pouts[Len(pouts)].rc)
  /\ ppc' = "returned"
  /\ pret' = IF pkind = "Close" THEN NoValue ELSE pouts[Len(pouts)].rc
  /\ UNCHANGED <<pkind, pargs, pcalls, pouts>>
  /\ UNCHANGED notP

\* continue;
PrimRetry ==
  /\ ppc = "check" /\ ~Succeeded(pkind, pouts[Len(pouts)].rc)
  /\ Retried(pkind, pouts[Len(pouts)].errno)
  /\ ppc' = "call"
  /\ UNCHANGED <<pkind, pargs, pcalls, pouts, pret>>
  /\ UNCHANGED notP

\* error("...") does not return
PrimFatal ==
  /\ ppc = "check" /\ ~Succeeded(pkind, pouts[Len(pouts)].rc)
  /\ ~Retried(pkind, pouts[Len(pouts)].errno)
  /\ ppc' = "fatal"
  /\ UNCHANGED <<pkind, pargs, pcalls, pouts, pret>>
  /\ UNCHANGED notP

PrimNext ==
  \/ PrimCall
  \/ PrimReturn
  \/ PrimRetry
  \/ PrimFatal

(* ======================= main() and serve_client() ==================== *)

\* the count serve_client() hands to writen()
MsgCount == 64

\* connections in the order accepted; thread t serves connection t
Conns == 1..MaxConns
\* descriptor numbers accept() can hand out (0..2 are the standard streams,
\* 3 is lsocket)
Fds == 4..(3 + MaxConns)
\* blocks Malloc(sizeof(int)) can return
Blocks == 1..MaxConns

\* accept() returns the lowest descriptor number that is not open
LowestFree(tab) == CHOOSE f \in Fds : tab[f] = 0 /\ \A g \in Fds : tab[g] = 0 => f <= g

\* the partial results of write() followed for a handler's request
HandlerWriteResults(req) == {req \div 2, req}

\* for (;;): where main() goes once Pthread_create() has returned
AfterCreateJoin == "join"
AfterCreate == "accept"

\* where serve_client() goes once free(arg) has returned
AfterFreeAgain == "free"
AfterFree == "msg"

ServerIdle ==
  /\ alive = FALSE /\ exited = "none" /\ lpc = "idle" /\ csocket = 0 /\ arg = 0
  /\ nAccepted = 0
  /\ fdtab = [f \in Fds |-> 0] /\ connFd = [c \in Conns |-> 0]
  /\ heap = [b \in Blocks |-> [live |-> FALSE, val |-> 0]]
  /\ hpc = [t \in Conns |-> "none"] /\ harg = [t \in Conns |-> 0]
  /\ hsocket = [t \in Conns |-> 0] /\ hn = [t \in Conns |-> 0]
  /\ hwrites = [t \in Conns |-> 0] /\ hmsg = [t \in Conns |-> FALSE]
  /\ closes = [c \in Conns |-> 0] /\ ioLog = {}

\* main() has bound lsocket and called Listen()
ServerInit ==
  /\ alive = TRUE /\ exited = "none" /\ lpc = "accept" /\ csocket = 0 /\ arg = 0
  /\ nAccepted = 0
  /\ fdtab = [f \in Fds |-> 0] /\ connFd = [c \in Conns |-> 0]
  /\ heap = [b \in Blocks |-> [live |-> FALSE, val |-> 0]]
  /\ hpc = [t \in Conns |-> "none"] /\ harg = [t \in Conns |-> 0]
  /\ hsocket = [t \in Conns |-> 0] /\ hn = [t \in Conns |-> 0]
  /\ hwrites = [t \in Conns |-> 0] /\ hmsg = [t \in Conns |-> FALSE]
  /\ closes = [c \in Conns |-> 0] /\ ioLog = {}

\* error(): perror(s); exit(-1); ends the process, every thread with it
ErrorExit(who) ==
  /\ alive' = FALSE
  /\ exited' = who

\* csocket = Accept(lsocket, NULL, 0): accept() returns a new descriptor
AcceptOk ==
  /\ alive /\ lpc = "accept" /\ nAccepted < MaxConns
  /\ LET fd == LowestFree(fdtab)
         c == nAccepted + 1
     IN /\ csocket' = fd
        /\ fdtab' = [fdtab EXCEPT ![fd] = c]
        /\ connFd' = [connFd EXCEPT ![c] = fd]
        /\ nAccepted' = c
  /\ lpc' = "malloc"
  /\ UNCHANGED <<alive, exited, arg, heap, hpc, harg, hsocket, hn,
                 hwrites, hmsg, closes, ioLog>>
  /\ UNCHANGED notS

\* accept() fails with EINTR or ECONNABORTED: Accept() calls it again, which
\* leaves main() where it is
AcceptRetry ==
  /\ alive /\ lpc = "accept"
  /\ UNCHANGED svars
  /\ UNCHANGED notS

\* accept() fails with another errno: error("accept()")
AcceptFatal ==
  /\ alive /\ lpc = "accept"
  /\ ErrorExit("main")
  /\ UNCHANGED <<lpc, csocket, arg, nAccepted, fdtab, connFd, heap, hpc,
                 harg, hsocket, hn, hwrites, hmsg, closes, ioLog>>
  /\ UNCHANGED notS

\* arg = Malloc(sizeof(int)); *arg = csocket;
MallocOk ==
  /\ alive /\ lpc = "malloc"
  /\ \E b \in Blocks :
       /\ ~heap[b].live
       /\ heap' = [heap EXCEPT ![b] = [live |-> TRUE, val |-> csocket]]
       /\ arg' = b
  /\ lpc' = "create"
  /\ UNCHANGED <<alive, exited, csocket, nAccepted, fdtab, connFd, hpc,
                 harg, hsocket, hn, hwrites, hmsg, closes, ioLog>>
  /\ UNCHANGED notS

\* malloc() returns NULL: error("malloc()")
MallocFatal ==
  /\ alive /\ lpc = "malloc"
  /\ ErrorExit("main")
  /\ UNCHANGED <<lpc, csocket, arg, nAccepted, fdtab, connFd, heap, hpc,
                 harg, hsocket, hn, hwrites, hmsg, closes, ioLog>>
  /\ UNCHANGED notS

\* Pthread_create(&thread, NULL, serve_client, arg): the thread exists and
\* main() goes round the loop
CreateOk ==
  /\ alive /\ lpc = "create"
  /\ hpc' = [hpc EXCEPT ![nAccepted] = "fetch"]
  /\ harg' = [harg EXCEPT ![nAccepted] = arg]
  /\ lpc' = AfterCreate
  /\ UNCHANGED <<alive, exited, csocket, arg, nAccepted, fdtab, connFd,
                 heap, hsocket, hn, hwrites, hmsg, closes, ioLog>>
  /\ UNCHANGED notS

\* pthread_create() fails: error("pthread_create()")
CreateFatal ==
  /\ alive /\ lpc = "create"
  /\ ErrorExit("main")
  /\ UNCHANGED <<lpc, csocket, arg, nAccepted, fdtab, connFd, heap, hpc,
                 harg, hsocket, hn, hwrites, hmsg, closes, ioLog>>
  /\ UNCHANGED notS

\* the steps by which main() gets on, as opposed to fails
ListenerProgress == AcceptOk \/ MallocOk \/ CreateOk

\* pthread_detach(pthread_self()); socket = *((int*)arg);
HFetch(t) ==
  /\ alive /\ hpc[t] = "fetch"
  /\ hsocket' = [hsocket EXCEPT ![t] = heap[harg[t]].val]
  /\ hpc' = [hpc EXCEPT ![t] = "free"]
  /\ UNCHANGED <<alive, exited, lpc, csocket, arg, nAccepted, fdtab,
                 connFd, heap, harg, hn, hwrites, hmsg, closes, ioLog>>
  /\ UNCHANGED notS

\* free(arg);
HFree(t) ==
  /\ alive /\ hpc[t] = "free"
  /\ heap' = [heap EXCEPT ![harg[t]].live = FALSE]
  /\ hpc' = [hpc EXCEPT ![t] = AfterFree]
  /\ UNCHANGED <<alive, exited, lpc, csocket, arg, nAccepted, fdtab,
                 connFd, harg, hsocket, hn, hwrites, hmsg, closes, ioLog>>
  /\ UNCHANGED notS

\* random_message = malloc(rand() % 11 + 1) returns a block, which is filled;
\* writen(socket, random_message, 64) starts with p = buf; n = count;
HMessage(t) ==
  /\ alive /\ hpc[t] = "msg"
  /\ hmsg' = [hmsg EXCEPT ![t] = TRUE]
  /\ hn' = [hn EXCEPT ![t] = MsgCount]
  /\ hpc' = [hpc EXCEPT ![t] = "write"]
  /\ UNCHANGED <<alive, exited, lpc, csocket, arg, nAccepted, fdtab,
                 connFd, heap, harg, hsocket, hwrites, closes, ioLog>>
  /\ UNCHANGED notS

\* malloc() returns NULL, which serve_client() does not test:
\* random_message[rand() % 10] = '\0' stores through it and the process is
\* killed by the signal
HMessageNull(t) ==
  /\ alive /\ hpc[t] = "msg"
  /\ hpc' = [hpc EXCEPT ![t] = "fatal"]
  /\ ErrorExit("handler")
  /\ UNCHANGED <<lpc, csocket, arg, nAccepted, fdtab, connFd, heap,
                 harg, hsocket, hn, hwrites, hmsg, closes, ioLog>>
  /\ UNCHANGED notS

\* rc = Write(socket, p, count) on an open descriptor; n -= rc; p += rc;
HWrite(t) ==
  /\ alive /\ hpc[t] = "write" /\ hn[t] # 0 /\ hwrites[t] < MaxHandlerWrites
  /\ fdtab[hsocket[t]] # 0
  /\ \E rc \in HandlerWriteResults(WriteRequest("server", MsgCount, hn[t])) :
       hn' = [hn EXCEPT ![t] = SizeSub(hn[t], rc)]
  /\ hwrites' = [hwrites EXCEPT ![t] = hwrites[t] + 1]
  /\ ioLog' = ioLog \cup {<<t, fdtab[hsocket[t]], "write">>}
  /\ UNCHANGED <<alive, exited, lpc, csocket, arg, nAccepted, fdtab,
                 connFd, heap, hpc, harg, hsocket, hmsg, closes>>
  /\ UNCHANGED notS

\* write() fails with an errno other than EINTR (EPIPE, ECONNRESET, EBADF on
\* a descriptor that is not open, EFAULT): error("write()")
HWriteFatal(t) ==
  /\ alive /\ hpc[t] = "write" /\ hn[t] # 0
  /\ hpc' = [hpc EXCEPT ![t] = "fatal"]
  /\ ErrorExit("handler")
  /\ UNCHANGED <<lpc, csocket, arg, nAccepted, fdtab, connFd, heap,
                 harg, hsocket, hn, hwrites, hmsg, closes, ioLog>>
  /\ UNCHANGED notS

\* while (n) ends and writen() returns
HWritenReturn(t) ==
  /\ alive /\ hpc[t] = "write" /\ hn[t] = 0
  /\ hpc' = [hpc EXCEPT ![t] = "close"]
  /\ UNCHANGED <<alive, exited, lpc, csocket, arg, nAccepted, fdtab,
                 connFd, heap, harg, hsocket, hn, hwrites, hmsg, closes, ioLog>>
  /\ UNCHANGED notS

\* the kernel lets go of descriptor fd: the connection behind it is closed
Release(t, fd) ==
  /\ fdtab' = [fdtab EXCEPT ![fd] = 0]
  /\ closes' = [closes EXCEPT ![fdtab[fd]] = closes[fdtab[fd]] + 1]
  /\ ioLog' = ioLog \cup {<<t, fdtab[fd], "close">>}

\* Close(socket): close() returns 0; return NULL;
HCloseOk(t) ==
  /\ alive /\ hpc[t] = "close" /\ fdtab[hsocket[t]] # 0
  /\ Release(t, hsocket[t])
  /\ hpc' = [hpc EXCEPT ![t] = "done"]
  /\ UNCHANGED <<alive, exited, lpc, csocket, arg, nAccepted, connFd,
                 heap, harg, hsocket, hn, hwrites, hmsg>>
  /\ UNCHANGED notS

\* close() fails with EINTR and Close() calls it again.  Whether the
\* descriptor is still open after such a failure is left open by POSIX: Linux
\* has released it, other systems have not.
HCloseEintr(t) ==
  /\ alive /\ hpc[t] = "close" /\ fdtab[hsocket[t]] # 0
  /\ \/ Release(t, hsocket[t])
     \/ UNCHANGED <<fdtab, closes, ioLog>>
  /\ UNCHANGED <<alive, exited, lpc, csocket, arg, nAccepted, connFd, heap, hpc,
                 harg, hsocket, hn, hwrites, hmsg>>
  /\ UNCHANGED notS

\* close() fails with another errno (EBADF when the number is not open, EIO):
\* error("close()")
HCloseFatal(t) ==
  /\ alive /\ hpc[t] = "close"
  /\ \/ fdtab[hsocket[t]] # 0 /\ Release(t, hsocket[t])
     \/ UNCHANGED <<fdtab, closes, ioLog>>
  /\ hpc' = [hpc EXCEPT ![t] = "fatal"]
  /\ ErrorExit("handler")
  /\ UNCHANGED <<lpc, csocket, arg, nAccepted, connFd, heap, harg,
                 hsocket, hn, hwrites, hmsg>>
  /\ UNCHANGED notS

ServerNext ==
  \/ AcceptOk
  \/ AcceptRetry
  \/ AcceptFatal
  \/ MallocOk
  \/ MallocFatal
  \/ CreateOk
  \/ CreateFatal
  \/ \E t \in Conns : HFetch(t)
  \/ \E t \in Conns : HFree(t)
  \/ \E t \in Conns : HMessage(t)
  \/ \E t \in Conns : HMessageNull(t)
  \/ \E t \in Conns : HWrite(t)
  \/ \E t \in Conns : HWriteFatal(t)
  \/ \E t \in Conns : HWritenReturn(t)
  \/ \E t \in Conns : HCloseOk(t)
  \/ \E t \in Conns : HCloseEintr(t)
  \/ \E t \in Conns : HCloseFatal(t)

(* ========================== random_message ============================ *)

\* rand() % 11 + 1, the size handed to malloc()
SizeChoices == 1..11
\* rand() % 11, the bound the loop test draws each time round
FillChoices == 0..10
\* rand() % 10, the index of the '\0'
TermChoices == 0..9

MessageIdle ==
  /\ mpc = "idle" /\ msize = 0 /\ mi = 0 /\ mstored = {} /\ mreadEnd = 0

\* serve_client() has fetched its socket and freed arg
MessageInit ==
  /\ mpc = "alloc" /\ msize = 0 /\ mi = 0 /\ mstored = {} /\ mreadEnd = 0

\* random_message = malloc(sizeof(char) * (rand() % 11 + 1)); int i = 0;
MsgAlloc ==
  /\ mpc = "alloc"
  /\ \E sz \in SizeChoices : msize' = sz
  /\ mi' = 0 /\ mpc' = "fill"
  /\ UNCHANGED <<mstored, mreadEnd>>
  /\ UNCHANGED notM

\* malloc() returns NULL, which is not tested: the first store goes through
\* the null pointer and the process is killed
MsgAllocNull ==
  /\ mpc = "alloc"
  /\ mpc' = "crashed"
  /\ UNCHANGED <<msize, mi, mstored, mreadEnd>>
  /\ UNCHANGED notM

\* i < rand() % 11 holds: random_message[i] = 'a' + rand() % 26; i++
MsgFillStore ==
  /\ mpc = "fill"
  /\ \E r \in FillChoices : mi < r
  /\ mstored' = mstored \cup {mi}
  /\ mi' = mi + 1
  /\ UNCHANGED <<mpc, msize, mreadEnd>>
  /\ UNCHANGED notM

\* i < rand() % 11 fails: the loop ends
MsgFillEnd ==
  /\ mpc = "fill"
  /\ \E r \in FillChoices : ~(mi < r)
  /\ mpc' = "term"
  /\ UNCHANGED <<msize, mi, mstored, mreadEnd>>
  /\ UNCHANGED notM

\* random_message[rand() % 10] = '\0';
MsgTerm ==
  /\ mpc = "term"
  /\ \E k \in TermChoices : mstored' = mstored \cup {k}
  /\ mpc' = "send"
  /\ UNCHANGED <<msize, mi, mreadEnd>>
  /\ UNCHANGED notM

\* writen(socket, random_message, 64): the first Write(socket, p, count)
\* hands write() the bytes p[0] .. p[count - 1]
MsgSend ==
  /\ mpc = "send"
  /\ mreadEnd' = 0 + WriteRequest("server", MsgCount, MsgCount)
  /\ mpc' = "sent"
  /\ UNCHANGED <<msize, mi, mstored>>
  /\ UNCHANGED notM

MessageNext ==
  \/ MsgAlloc
  \/ MsgAllocNull
  \/ MsgFillStore
  \/ MsgFillEnd
  \/ MsgTerm
  \/ MsgSend

(* ============================== do_work =============================== *)

\* the size of s[], the most one Read() is asked for
MAXLINE == 256

Min(a, b) == IF a < b THEN a ELSE b

\* the sources that can turn ready: bytes or the end of stream are to come
CanBeReady ==
  {src \in {"stdin", "sock"} :
     IF src = "stdin" THEN cin # <<>> \/ cinEof ELSE csk # <<>> \/ cskEof}

\* if (!rc) break;  else on to the socket test, or round the loop
AfterStdinReadSkipsSock(rc, ready) == IF rc = 0 THEN "done" ELSE "select"
AfterStdinReadNoBreak(rc, ready) == IF "sock" \in ready THEN "sock" ELSE "select"
AfterStdinRead(rc, ready) ==
  IF rc = 0 THEN "done" ELSE IF "sock" \in ready THEN "sock" ELSE "select"

\* if (!rc) break;  else round the loop
AfterSockRead(rc) == IF rc = 0 THEN "done" ELSE "select"

ClientIdle ==
  /\ cpc = "idle" /\ cready = {} /\ cin = <<>> /\ cinEof = FALSE /\ csk = <<>>
  /\ cskEof = FALSE /\ toSock = <<>> /\ toOut = <<>> /\ cwaits = 0
  /\ ceofSrc = "none" /\ cwaitsAtEof = 0 /\ cfwdAtEof = 0 /\ creadIter = {}

\* do_work(socket) is entered on a connected socket
ClientInit ==
  /\ cpc = "select" /\ cready = {}
  /\ cin \in SeqUpTo(Letters, MaxInput) /\ cinEof \in BOOLEAN
  /\ csk \in SeqUpTo(Letters, MaxInput) /\ cskEof \in BOOLEAN
  /\ toSock = <<>> /\ toOut = <<>> /\ cwaits = 0
  /\ ceofSrc = "none" /\ cwaitsAtEof = 0 /\ cfwdAtEof = 0 /\ creadIter = {}

\* FD_ZERO; FD_SET(STDIN_FILENO); FD_SET(socket); Select(n, &readfds, ...)
\* returns with the descriptors that are ready, at least one
CSelect ==
  /\ cpc = "select" /\ cwaits < MaxWaits
  /\ \E r \in SUBSET CanBeReady :
       /\ r # {}
       /\ cready' = r
       /\ cpc' = IF "stdin" \in r THEN "stdin" ELSE "sock"
  /\ cwaits' = cwaits + 1
  /\ creadIter' = {}
  /\ UNCHANGED <<cin, cinEof, csk, cskEof, toSock, toOut, ceofSrc, cwaitsAtEof,
                 cfwdAtEof>>
  /\ UNCHANGED notC

\* rc = Read(STDIN_FILENO, s, MAXLINE); if (!rc) break; writen(socket, s, rc);
CStdin ==
  /\ cpc = "stdin"
  /\ \E rc \in (IF cin = <<>> THEN {0} ELSE 1..Min(MAXLINE, Len(cin))) :
       /\ cin' = SubSeq(cin, rc + 1, Len(cin))
       /\ toSock' = toSock \o SubSeq(cin, 1, rc)
       /\ cpc' = AfterStdinRead(rc, cready)
       /\ IF rc = 0
            THEN /\ ceofSrc' = "stdin"
                 /\ cwaitsAtEof' = cwaits
                 /\ cfwdAtEof' = Len(toSock) + Len(toOut)
            ELSE UNCHANGED <<ceofSrc, cwaitsAtEof, cfwdAtEof>>
  /\ creadIter' = creadIter \cup {"stdin"}
  /\ UNCHANGED <<cready, cinEof, csk, cskEof, toOut, cwaits>>
  /\ UNCHANGED notC

\* rc = Read(socket, s, MAXLINE); if (!rc) break; Write(STDOUT_FILENO, s, rc);
\* one write() takes the first w of the rc bytes and its result is dropped
CSock ==
  /\ cpc = "sock"
  /\ \E rc \in (IF csk = <<>> THEN {0} ELSE 1..Min(MAXLINE, Len(csk))) :
       /\ csk' = SubSeq(csk, rc + 1, Len(csk))
       /\ \E w \in (IF rc = 0 THEN {0} ELSE 1..rc) :
            toOut' = toOut \o SubSeq(csk, 1, w)
       /\ cpc' = AfterSockRead(rc)
       /\ IF rc = 0
            THEN /\ ceofSrc' = "sock"
                 /\ cwaitsAtEof' = cwaits
                 /\ cfwdAtEof' = Len(toSock) + Len(toOut)
            ELSE UNCHANGED <<ceofSrc, cwaitsAtEof, cfwdAtEof>>
  /\ creadIter' = creadIter \cup {"sock"}
  /\ UNCHANGED <<cready, cin, cinEof, cskEof, toSock, cwaits>>
  /\ UNCHANGED notC

\* select(), read() or write() fails with an errno other than EINTR: error()
CFatal ==
  /\ cpc \in {"select", "stdin", "sock"}
  /\ cpc' = "fatal"
  /\ UNCHANGED <<cready, cin, cinEof, csk, cskEof, toSock, toOut, cwaits, ceofSrc,
                 cwaitsAtEof, cfwdAtEof, creadIter>>
  /\ UNCHANGED notC

ClientNext ==
  \/ CSelect
  \/ CStdin
  \/ CSock
  \/ CFatal

(* =========================== specifications ========================== *)

InitW ==
  WritenInit /\ ReadsIdle /\ PrimIdle /\ ServerIdle /\ ClientIdle
  /\ MessageIdle
SpecWriten == InitW /\ [][WritenNext]_vars

InitR ==
  ReadsInit /\ WritenIdle /\ PrimIdle /\ ServerIdle /\ ClientIdle
  /\ MessageIdle
SpecReads == InitR /\ [][ReadsNext]_vars

\* one call of either function: reads() or writen()
InitRW == InitR \/ InitW
SpecCalls == InitRW /\ [][ReadsNext \/ WritenNext]_vars

InitP ==
  PrimInit /\ WritenIdle /\ ReadsIdle /\ ServerIdle /\ ClientIdle
  /\ MessageIdle
SpecPrim == InitP /\ [][PrimNext]_vars

InitS ==
  ServerInit /\ WritenIdle /\ ReadsIdle /\ PrimIdle /\ ClientIdle
  /\ MessageIdle
SpecServer == InitS /\ [][ServerNext]_vars

\* the steps by which handler t gets on: every call it makes returns without
\* a failure
HandlerProgress(t) ==
  \/ HFetch(t)
  \/ HFree(t)
  \/ HMessage(t)
  \/ HWrite(t)
  \/ HWritenReturn(t)
  \/ HCloseOk(t)

\* the server with every thread scheduled again and again and every call of
\* a handler that can succeed succeeding eventually
SpecServerFair ==
  InitS /\ [][ServerNext]_vars /\ \A t \in Conns : WF_vars(HandlerProgress(t))

InitC ==
  ClientInit /\ WritenIdle /\ ReadsIdle /\ PrimIdle /\ ServerIdle
  /\ MessageIdle
SpecClient == InitC /\ [][ClientNext]_vars

InitM ==
  MessageInit /\ WritenIdle /\ ReadsIdle /\ PrimIdle /\ ServerIdle
  /\ ClientIdle
SpecMessage == InitM /\ [][MessageNext]_vars

(* =============================== claims =============================== *)

\* C1: when writen() returns, the bytes delivered to the stream are exactly
\* the count bytes of the buffer, in order, nothing missing, duplicated or
\* appended, and the return value is count -- whatever partial results (1 up
\* to the requested length) the underlying write produced.
C1_WritenDeliversAll ==
  wpc = "returned" => (wout = wbuf /\ wret = wcount /\ wret = Len(wbuf))

\* the server's writen() has returned after at least two partial writes
C1_Witness ==
  /\ wpc = "returned" /\ wv = "server" /\ wcalls >= 2 /\ wcount = MaxCount
  /\ wout = wbuf

\* the data bytes reads() left in s[0..k-1]
ReadsData(k) == [i \in 1..k |-> rmem[i - 1]]
\* the first k bytes the peer sent
StreamPrefix(k) == SubSeq(rstream, 1, k)
\* position of the first newline among the first k bytes of the stream, or 0
FirstNL(k) ==
  LET hits == {i \in 1..k : i <= Len(rstream) /\ rstream[i] = NL}
  IN IF hits = {} THEN 0 ELSE CHOOSE i \in hits : \A j \in hits : i <= j

\* C5: with capacity C >= 1, reads() never stores outside s[0..C-1], returns
\* n <= C-1 with the 0 sentinel at index n; a newline among the first C-1
\* bytes of the stream ends the line there (bytes up to and including it are
\* returned); otherwise, with C-1 bytes available, exactly C-1 bytes are
\* returned and consumed and the rest stays unread.
C5_ReadsBounded ==
  /\ \A i \in rwritten : i < rcap
  /\ (rpc = "returned" /\ rcap >= 1) =>
       /\ rret <= rcap - 1
       /\ rmem[rret] = Sentinel
       /\ ReadsData(rret) = StreamPrefix(rret)
       /\ rpos = rret
       /\ LET k == FirstNL(rcap - 1) IN
            /\ k # 0 => rret = k
            /\ (k = 0 /\ Len(rstream) >= rcap - 1) => rret = rcap - 1

\* a line without newline cut at capacity-1 while data is left unread
C5_Witness ==
  /\ rpc = "returned" /\ rcap = MaxCap /\ rret = rcap - 1
  /\ FirstNL(rcap - 1) = 0 /\ Len(rstream) > rpos

\* C6: when the peer closes before a newline was read and before capacity-1
\* bytes were stored, reads() ends at that read and returns exactly the k
\* bytes received so far (possibly none), no newline appended, sentinel at k.
C6_ReadsEndOfStream ==
  (/\ rpc = "returned" /\ rcap >= 1 /\ reof
   /\ Len(rstream) < rcap - 1 /\ FirstNL(Len(rstream)) = 0) =>
     /\ rret = Len(rstream)
     /\ ReadsData(rret) = rstream
     /\ rmem[rret] = Sentinel
     /\ rwritten = 0..rret
     /\ rreads = Len(rstream) + 1

\* the peer closed after one byte without a newline, capacity not reached
C6_Witness ==
  /\ rpc = "returned" /\ reof /\ Len(rstream) = 1 /\ rstream[1] # NL
  /\ rcap = MaxCap /\ rret = 1

\* the outcome of the last underlying call
LastOut == pouts[Len(pouts)]
\* every underlying call was issued with the wrapper's own arguments
SameCallReissued == \A i \in 1..Len(pcalls) : pcalls[i] = pargs

\* C8: Read, Write and Close never hand an error indication back: after an
\* EINTR failure the identical call is issued again, the first outcome that
\* is not a failure is returned unchanged as the byte count, and any other
\* failure takes the fatal path without returning.
C8_PrimitivesNeverReturnError ==
  pkind \in {"Read", "Write", "Close"} =>
    /\ SameCallReissued
    /\ \A i \in 1..(Len(pouts) - 1) :
         pouts[i].rc = Failure /\ pouts[i].errno = "EINTR"
    /\ ppc = "returned" =>
         /\ LastOut.rc # Failure
         /\ pkind # "Close" => (pret = LastOut.rc /\ pret \in 0..pargs.count)
         /\ pkind = "Close" => (LastOut.rc = 0 /\ pret = NoValue)
    /\ ppc = "fatal" => (LastOut.rc = Failure /\ LastOut.errno # "EINTR")
    /\ (ppc = "call" /\ pouts # <<>>) =>
         (LastOut.rc = Failure /\ LastOut.errno = "EINTR")

\* Read returns 0 (peer closed) after two EINTR failures in a row
C8_Witness ==
  /\ pkind = "Read" /\ ppc = "returned" /\ pret = 0 /\ Len(pcalls) = 3
  /\ pouts[1].errno = "EINTR" /\ pouts[2].errno = "EINTR"

\* C9: Accept returns only a valid connected-stream handle: EINTR and
\* ECONNABORTED failures of accept() are retried on the same listening
\* socket any number of times in a row, every other failure is fatal.
C9_AcceptRetries ==
  pkind = "Accept" =>
    /\ SameCallReissued
    /\ \A i \in 1..(Len(pouts) - 1) :
         pouts[i].rc = Failure /\ pouts[i].errno \in {"EINTR", "ECONNABORTED"}
    /\ ppc = "returned" => (pret = LastOut.rc /\ pret \in AcceptFds)
    /\ ppc = "fatal" =>
         (LastOut.rc = Failure /\ LastOut.errno \notin {"EINTR", "ECONNABORTED"})
    /\ (ppc = "call" /\ pouts # <<>>) =>
         (LastOut.rc = Failure /\ LastOut.errno \in {"EINTR", "ECONNABORTED"})
    /\ (ppc = "check" /\ LastOut.errno = "ECONNABORTED") => ENABLED PrimRetry

\* Accept returns a descriptor after an aborted connection and an
\* interruption in a row
C9_Witness ==
  /\ pkind = "Accept" /\ ppc = "returned" /\ Len(pcalls) = 3
  /\ pouts[1].errno = "ECONNABORTED" /\ pouts[2].errno = "EINTR"
  /\ pret \in AcceptFds

\* threads Pthread_create() has started
Started == {t \in Conns : hpc[t] # "none"}
\* threads that have ended, by return or inside error()
Ended == {t \in Conns : hpc[t] \in {"done", "fatal"}}

\* C2: a fatal I/O error inside one connection handler ends only that
\* handler: the process lives on, the listener can still get on with its
\* loop, and the other handlers still run.
C2_HandlerFailureIsolated ==
  (\E t \in Conns : hpc[t] = "fatal") =>
    /\ alive
    /\ (lpc # "accept" \/ nAccepted < MaxConns) => ENABLED ListenerProgress

\* C3: whenever main() is back at Accept() every accepted connection has its
\* own started handler, and every operation a handler performs (write or
\* close) lands on the connection that was accepted for that handler, through
\* the descriptor accept() returned for it.
C3_OneOwnerPerStream ==
  /\ (alive /\ lpc = "accept") => Started = 1..nAccepted
  /\ \A t \in Conns :
       hpc[t] \in {"free", "msg", "write", "close", "done"} => hsocket[t] = connFd[t]
  /\ \A e \in ioLog : e[2] = e[1]

\* C4: once a handler has ended, normally or by a fatal error, its connection
\* has been closed exactly once, by that handler; no connection is ever
\* closed twice or by another thread.
C4_ClosedExactlyOnce ==
  /\ \A c \in Conns : closes[c] <= 1
  /\ \A e \in ioLog : e[3] = "close" => e[1] = e[2]
  /\ \A t \in Ended : closes[t] = 1

\* C7: the dispatch loop never waits for a handler: as long as the process
\* runs, main() has a step it can take (accept the next connection, allocate,
\* spawn) whatever the handlers are doing.
C7_DispatchNeverWaits ==
  (alive /\ (lpc # "accept" \/ nAccepted < MaxConns)) =>
    /\ lpc \in {"accept", "malloc", "create"}
    /\ ENABLED ListenerProgress

\* a second connection has been accepted and dispatched, and main() is back
\* at Accept(), while the first handler has not even fetched its argument
C7_Witness ==
  /\ alive /\ lpc = "accept" /\ nAccepted = 2
  /\ hpc[1] = "fetch" /\ hpc[2] = "fetch"

\* C10: in do_work() a zero-byte read on either source ends the loop in
\* that same iteration, with no further readiness wait and nothing forwarded
\* after it; and the loop ends for no other reason than end of stream.
C10_EofEndsLoop ==
  /\ ceofSrc # "none" =>
       /\ cpc = "done"
       /\ cwaits = cwaitsAtEof
       /\ Len(toSock) + Len(toOut) = cfwdAtEof
  /\ cpc = "done" => ceofSrc # "none"

\* stdin reported end of stream in an iteration whose select() had reported
\* the socket ready too, and the loop ended without reading the socket
C10_Witness ==
  /\ cpc = "done" /\ ceofSrc = "stdin" /\ cready = {"stdin", "sock"}
  /\ csk # <<>>

\* C11 as stated: in every iteration that is over, every source the one
\* select() of that iteration reported ready has been read.
C11_EveryReadySourceRead ==
  (cwaits >= 1 /\ cpc \in {"select", "done"}) => creadIter = cready

\* C11 amended: a source is read only when the iteration's one select()
\* reported it ready, and every iteration that goes back to select() has read
\* every source reported ready -- with both ready, stdin and then the socket;
\* only an iteration that ends the loop (a zero-byte read) leaves a ready
\* source unread.
C11_ReadySourcesReadUnlessLoopEnds ==
  /\ creadIter \subseteq cready
  /\ cpc = "stdin" => ("stdin" \in cready /\ creadIter = {})
  /\ cpc = "sock" => ("sock" \in cready /\ creadIter = cready \ {"sock"})
  /\ (cwaits >= 1 /\ cpc = "select") => creadIter = cready
  /\ cpc = "done" => creadIter = (IF ceofSrc = "stdin" THEN {"stdin"} ELSE cready)

\* both sources were reported ready by one select() and both have been read
\* before the next select()
C11_Witness ==
  /\ cpc = "select" /\ cwaits >= 1 /\ cready = {"stdin", "sock"}
  /\ creadIter = {"stdin", "sock"}

\* C12: in every iteration of the server's writen() loop the length asked of
\* Write() does not exceed the remaining n, p plus that length does not pass
\* buf + count, bytes written plus n is count with 0 <= n <= count, and n is
\* never taken below zero (no size_t wrap-around).
C12_RequestWithinRemaining ==
  (wv = "server" /\ wpc = "loop") =>
    /\ 0 <= wn /\ wn <= wcount
    /\ wp + wn = wcount
    /\ wn # 0 =>
         /\ WriteRequest(wv, wcount, wn) <= wn
         /\ wp + WriteRequest(wv, wcount, wn) <= wcount

C14_ChunksForwardedWhole ==
  [][ /\ toSock' = toSock \o SubSeq(cin, 1, Len(cin) - Len(cin'))
      /\ toOut' = toOut \o SubSeq(csk, 1, Len(csk) - Len(csk')) ]_vars

\* the argument block of handler t is in use again: malloc() has handed it
\* out for a later connection
BlockReused(t) ==
  \/ lpc = "create" /\ arg = harg[t]
  \/ \E u \in Conns \ {t} : hpc[u] \in {"fetch", "free"} /\ harg[u] = harg[t]

\* the stream and the argument block of a handler that has returned are
\* released
StreamAndArgReleased(t) ==
  /\ closes[t] >= 1 /\ fdtab[connFd[t]] # t
  /\ heap[harg[t]].live => BlockReused(t)

\* C15: a handler that has returned has released every resource it owned: its
\* stream is closed, its argument block is freed and every block it allocated
\* itself is freed, so that nothing is held for finished handlers.
C15_DoneHandlerHoldsNothing ==
  \A t \in Conns :
    hpc[t] = "done" => (StreamAndArgReleased(t) /\ ~hmsg[t])

\* C16: the argument block is handed off one way.  Every change of the heap
\* is either the dispatch loop allocating and filling a block before the
\* spawn, or the one handler that was given the block freeing it while it is
\* allocated; a handler that is to read or free its block finds it allocated
\* and shares it with no other handler that is to read or free.
C16_ArgBlockHandedOff ==
  [][ /\ \A t \in Conns :
           hpc[t] \in {"fetch", "free"} =>
             /\ heap[harg[t]].live
             /\ ~(lpc = "create" /\ arg = harg[t])
             /\ \A u \in Conns \ {t} :
                  hpc[u] \in {"fetch", "free"} => harg[u] # harg[t]
      /\ \A b \in Blocks :
           heap'[b] # heap[b] =>
             \/ /\ lpc = "malloc" /\ lpc' = "create" /\ arg' = b
                /\ ~heap[b].live /\ heap'[b].live
             \/ \E t \in Conns :
                  /\ hpc[t] = "free" /\ harg[t] = b
                  /\ heap[b].live /\ ~heap'[b].live
                  /\ heap'[b].val = heap[b].val ]_vars

\* a block freed by the first handler has been handed to the second
C16_Witness ==
  /\ hpc[1] \in {"msg", "write", "close", "done"}
  /\ hpc[2] \in {"fetch", "free"}
  /\ harg[2] = harg[1]
  /\ heap[harg[2]].live

\* C17: with a buffer that is not NULL, reads() called with size 0 returns 0
\* having issued no read() and stored no byte of the buffer, the terminating
\* 0 included, and writen() called with count 0 returns 0 having issued no
\* write().
C17_EmptyCallsDoNothing ==
  /\ (rpc = "returned" /\ ~rnull /\ rcap = 0) =>
       /\ rret = 0
       /\ rreads = 0 /\ reintr = 0 /\ rpos = 0
       /\ rwritten = {} /\ rmem = FreshCells
  /\ (wpc = "returned" /\ ~wnull /\ wcount = 0) =>
       /\ wret = 0
       /\ wcalls = 0 /\ weintr = 0 /\ wout = <<>>

\* writen(socket, buf, 0) has returned; the case of reads() is reached in the
\* behaviours that start with a call of reads()
C17_Witness ==
  /\ wpc = "returned" /\ ~wnull /\ wcount = 0 /\ wv = "server"

\* C18: whatever the random choices, every byte serve_client() stores into
\* random_message and every byte the 64-byte send hands to write() lies
\* inside the allocated block.
C18_MessageAccessInBlock ==
  mpc \in {"fill", "term", "send", "sent"} =>
    /\ \A i \in mstored : i < msize
    /\ mreadEnd <= msize

\* C19: in every interleaving of main() and the handlers, close() calls that
\* fail with EINTR and are issued again included, each close() of handler t
\* that lets a descriptor go lets go of the descriptor of connection t, never
\* of one that belongs to the connection of another handler.
C19_CloseOnlyOwnDescriptor ==
  [][ \A t \in Conns : \A fd \in Fds :
        (hpc[t] = "close" /\ hsocket[t] = fd /\ fdtab[fd] # 0 /\ fdtab'[fd] = 0)
          => fdtab[fd] = t ]_vars

=============================================================================
